---- MODULE Spec2Model ----
(***************************************************************************)
(* IoT device metrics reporter: the agent's report loop (agent/agent.py)   *)
(* and the collector's device store and read path (server/app.py).         *)
(*                                                                         *)
(* Python values are modelled as records of one shape, [k, n, s, o]:       *)
(*   k  the type tag: "none", "int", "float", "str", "list", "obj"         *)
(*   n  the number of an int (a float is kept in hundredths)               *)
(*   s  the text of a str                                                  *)
(*   o  the mapping of a dict (a function from its keys to values)         *)
(* Time is counted in ticks of half a second, the CPU sampling delay.      *)
(***************************************************************************)
EXTENDS Integers, Sequences, FiniteSets, TLC

VARIABLES
    \* ---- agent (agent.py main) ----
    pc,         \* where main() is: "collect", "send", "sleep", "backoff",
                \* "retry", "err_sleep", or "dead" (an exception left main)
                \* (on one clock with the collector: "collect", "sampling",
                \* "posting", "sleeping")
    clock,      \* the agent's time.time(), in ticks
    a_interval, \* a.interval, the --interval argument
    interval,   \* interval = max(3, a.interval)
    payload,    \* the local payload of the while loop
    back,       \* position of the for loop in (2, 4, 8); 0 outside it
    \* ---- agent, observation of the current cycle ----
    sampled,    \* what the cycle's collect() returned
    sent,       \* the payloads given to post_json in this cycle, in order
    results,    \* the outcome of each of those post_json calls
    waits,      \* the backoff sleeps of this cycle, in seconds, in order
    slept,      \* ticks slept since the last post_json call returned
    \* ---- collector (app.py) ----
    DEVICES,    \* the module-level mapping device_id -> record
    response,   \* the response of the last request handled
    lastSubmit, \* observation: the last POST /metrics request and its outcome
    lastOp,     \* observation: "none", "submit", "read" or "health"
    latest,     \* observation: per key, the payload of the last accepted POST
    \* ---- collector, request threads (concurrent handling) ----
    th,         \* th[t]: the locals of the handler running on thread t
    accepted,   \* observation: the payloads stored so far, per key
    \* ---- agent and collector on one clock ----
    timer,      \* ticks until the agent's blocking call returns
    delivered,  \* the POST in flight has been handled by the collector
    \* ---- a single call of a function ----
    call        \* the function called, its arguments and what it gave back

agentVars == <<pc, clock, a_interval, interval, payload, back,
               sampled, sent, results, waits, slept>>
serverVars == <<DEVICES, response, lastSubmit, lastOp, latest>>
threadVars == <<th, accepted>>
sysVars == <<timer, delivered>>
vars == <<agentVars, serverVars, threadVars, sysVars, call>>

(***************************************************************************)
(* Bounds of the model.                                                    *)
(***************************************************************************)
MaxClock == 44          \* ticks the agent's clock may reach
MaxNow == 1             \* the collector's time.time() is in 0..MaxNow

(***************************************************************************)
(* Python values.                                                          *)
(***************************************************************************)
Empty == [z \in {} |-> 0]
Leaf(k, n, s) == [k |-> k, n |-> n, s |-> s, o |-> Empty]
None == Leaf("none", 0, "")
IntV(n) == Leaf("int", n, "")
FloatV(h) == Leaf("float", h, "")
StrV(s) == Leaf("str", 0, s)
Obj(f) == [k |-> "obj", n |-> 0, s |-> "", o |-> f]

Max(a, b) == IF a >= b THEN a ELSE b

\* dict.get(key, default)
Get(d, key, default) == IF key \in DOMAIN d THEN d[key] ELSE default

\* The decimal literals the model's strings can hold, with their values.
IntLiterals == [s \in {"0", "1", "7", "9", "30"} |->
                  CASE s = "0" -> 0 [] s = "1" -> 1 [] s = "7" -> 7
                    [] s = "9" -> 9 [] s = "30" -> 30]

\* int(v) succeeds: v is an int, a float, or a str holding a decimal literal
\* (None, a list, a dict and any other str raise TypeError / ValueError).
CanInt(v) ==
    \/ v.k \in {"int", "float"}
    \/ v.k = "str" /\ v.s \in DOMAIN IntLiterals

\* int(v), where it succeeds: a float is truncated toward zero
PyInt(v) ==
    CASE v.k = "int" -> v.n
      [] v.k = "float" -> IF v.n >= 0 THEN v.n \div 100 ELSE -((-v.n) \div 100)
      [] v.k = "str" -> IntLiterals[v.s]

\* str(v) of a str or an int
PyStr(v) == IF v.k = "str" THEN v.s ELSE ToString(v.n)

(***************************************************************************)
(* The agent: agent.py.                                                    *)
(***************************************************************************)
TicksPerSec == 2
CpuDelayTicks == 1      \* cpu_pct(0.5) blocks for half a second
MinInterval == 3

\* int(time.time())
epoch == clock \div TicksPerSec

dev == "a"

\* What read() of a statistics file can give back: the default "0" when the
\* file cannot be opened, else the stripped content, a number or not.
CounterReads == {"0", "7", "junk"}
PacketReads == {"0", "junk"}
Ifaces == {"", "eth0"}
CpuPcts == {0, 8000}

\* The first line of /proc/stat after its "cpu" word (parts[1:]): a sequence
\* of words, IntV(n) a decimal word and StrV one that int() rejects.
\* _read_proc_stat() raises: the file cannot be read or a word is no integer
_read_proc_stat_raises(res) ==
    \/ ~res.ok
    \/ \E i \in 1..Len(res.out) : ~CanInt(res.out[i])

\* vals = list(map(int, parts[1:])) + [0] * 10, from 1
Vals(res, i) == IF i <= Len(res.out) THEN PyInt(res.out[i]) ELSE 0

_read_proc_stat_IdleOnly(res) ==
    LET idle_all == Vals(res, 4)
        total == idle_all + Vals(res, 1) + Vals(res, 2) + Vals(res, 3)
                 + Vals(res, 6) + Vals(res, 7) + Vals(res, 8)
    IN <<total, idle_all>>

\* _read_proc_stat(), where it returns: (total, idle_all)
_read_proc_stat(res) ==
    LET idle_all == Vals(res, 4) + Vals(res, 5)
        total == idle_all + Vals(res, 1) + Vals(res, 2) + Vals(res, 3)
                 + Vals(res, 6) + Vals(res, 7) + Vals(res, 8)
    IN <<total, idle_all>>

\* round(num / den, 0) for den > 0: the nearest integer, the even one of two
\* equally near
Round(num, den) ==
    LET q == (2 * num + den) \div (2 * den)
    IN IF (2 * num + den) % (2 * den) = 0 /\ q % 2 = 1 THEN q - 1 ELSE q

\* cpu_pct() in hundredths, from the two reads of /proc/stat:
\* round((1 - idl / max(td, 1)) * 100.0, 2), and 0.0 when a read raises
cpu_pct(res1, res2) ==
    IF _read_proc_stat_raises(res1) \/ _read_proc_stat_raises(res2) THEN 0
    ELSE LET s1 == _read_proc_stat(res1)
             s2 == _read_proc_stat(res2)
             td == s2[1] - s1[1]
             idl == s2[2] - s1[2]
         IN Round((Max(td, 1) - idl) * 10000, Max(td, 1))

\* nic_stats(iface) raises: an int() of one of the four file reads rb, tb,
\* rp, tp fails, and nic_stats has no handler around it
nic_stats_raises(iface, rb, tb, rp, tp) ==
    /\ iface # ""
    /\ \E r \in {rb, tb, rp, tp} : r \notin DOMAIN IntLiterals

\* nic_stats(iface), where it returns
nic_stats(iface, rb, tb, rp, tp) ==
    IF iface = "" THEN <<0, 0, 0, 0>>
    ELSE <<IntLiterals[rb], IntLiterals[tb], IntLiterals[rp], IntLiterals[tp]>>

\* What sh(cmd) or open(path).read() gives: ok is false when it raises, out
\* is the text it returns. The output of a command is the sequence of its
\* whitespace-separated words, each word the sequence of its "/"-separated
\* pieces; the content of a file is one string.
Failed == [ok |-> FALSE, out |-> <<>>]
Text(t) == [ok |-> TRUE, out |-> t]

\* read(path, default)
read(res, default) == IF res.ok THEN res.out ELSE default

\* default_iface(): the word after the first "dev"; "" when there is no
\* "dev", and "" when the command or parts[...] raises
default_iface(res) ==
    IF ~res.ok THEN ""
    ELSE LET parts == res.out
             at == {i \in 1..Len(parts) : parts[i] = <<"dev">>}
         IN IF at = {} THEN ""
            ELSE LET i == CHOOSE j \in at : \A k \in at : j <= k
                 IN IF i + 1 <= Len(parts) THEN parts[i + 1][1] ELSE ""

\* ip_of(iface): the fourth word up to its "/"; "" when the interface is
\* unset, the command fails or the output has fewer than four words
ip_of(iface, res) ==
    IF iface = "" THEN ""
    ELSE IF ~res.ok THEN ""
    ELSE IF Len(res.out) < 4 THEN ""
    ELSE res.out[4][1]

\* mac_of(iface)
mac_of(iface, res) == IF iface # "" THEN read(res, "") ELSE ""

\* What the two lookups give on a device with an address
AddrShow == Text(<< <<"2:">>, <<"eth0">>, <<"inet">>, <<"10.0.0.2", "24">>,
                    <<"brd">>, <<"10.0.0.255">> >>)
AddressFile == Text("aa:bb")

\* collect(dev_id, interval), given the probes' results
collect(dev_id, ivl, iface, st, cpu) ==
    [device_id |-> StrV(dev_id),
     ts |-> IntV(epoch),
     interval |-> IntV(ivl),
     system |-> Obj([uptime_s |-> FloatV(1250),
                     cpu_pct |-> FloatV(cpu),
                     mem_pct |-> FloatV(4200),
                     disk_pct |-> IntV(37),
                     loadavg |-> Leaf("list", 0, "0.1,0.2,0.3")]),
     network |-> Obj([iface |-> StrV(iface),
                      ip |-> StrV(ip_of(iface, AddrShow)),
                      mac |-> StrV(mac_of(iface, AddressFile)),
                      rx_bytes |-> IntV(st[1]),
                      tx_bytes |-> IntV(st[2]),
                      rx_packets |-> IntV(st[3]),
                      tx_packets |-> IntV(st[4])])]

\* The outcomes of one post_json call: it returns, raises HTTPError/URLError,
\* or raises anything else (a socket timeout while reading the response, ...)
SendOutcomes == {"ok", "transport", "other"}

\* The payload handed to post_json by a retry (line 174)
RetryPayloadRefreshed == [payload EXCEPT !.ts = IntV(epoch)]
RetryPayload == payload

\* The schedule of the for loop (line 171)
BackoffsSwapped == <<2, 8, 4>>
Backoffs == <<2, 4, 8>>

ConfIntervals == {-1, 0, 3, 4}

AgentInitUnclamped ==
    /\ pc = "collect"
    /\ clock = 0
    /\ a_interval \in ConfIntervals
    /\ interval = a_interval
    /\ payload = Empty
    /\ back = 0
    /\ sampled = Empty
    /\ sent = <<>>
    /\ results = <<>>
    /\ waits = <<>>
    /\ slept = 0

\* main() up to the loop: the arguments are parsed, the interval is clamped
AgentInit ==
    /\ pc = "collect"
    /\ clock = 0
    /\ a_interval \in ConfIntervals
    /\ interval = Max(MinInterval, a_interval)
    /\ payload = Empty
    /\ back = 0
    /\ sampled = Empty
    /\ sent = <<>>
    /\ results = <<>>
    /\ waits = <<>>
    /\ slept = 0

\* line 163: payload = collect(dev, interval). The call is outside the try:
\* an exception raised in it leaves the loop and main.
Collect ==
    /\ pc = "collect"
    /\ clock + CpuDelayTicks <= MaxClock
    /\ \E iface \in Ifaces, rb \in CounterReads, tb \in CounterReads,
          rp \in PacketReads, tp \in PacketReads, cpu \in CpuPcts :
         IF nic_stats_raises(iface, rb, tb, rp, tp)
         THEN /\ pc' = "dead"
              /\ UNCHANGED <<payload, sampled, clock>>
         ELSE /\ payload' = collect(dev, interval, iface,
                                    nic_stats(iface, rb, tb, rp, tp), cpu)
              /\ sampled' = payload'
              /\ clock' = clock + CpuDelayTicks
              /\ pc' = "send"
    /\ sent' = <<>>
    /\ results' = <<>>
    /\ waits' = <<>>
    /\ slept' = 0
    /\ UNCHANGED <<a_interval, interval, back>>
    /\ UNCHANGED <<serverVars, threadVars, sysVars, call>>

\* lines 164-166, 168-170, 179-180: the first post_json of the cycle
Send ==
    /\ pc = "send"
    /\ \E out \in SendOutcomes :
         /\ results' = Append(results, out)
         /\ pc' = CASE out = "ok" -> "sleep"
                    [] out = "transport" -> "backoff"
                    [] out = "other" -> "err_sleep"
         /\ back' = IF out = "transport" THEN 1 ELSE 0
    /\ sent' = Append(sent, payload)
    /\ slept' = 0
    /\ UNCHANGED <<clock, a_interval, interval, payload, sampled, waits>>
    /\ UNCHANGED <<serverVars, threadVars, sysVars, call>>

\* line 167: time.sleep(interval) after a successful first send
Sleep ==
    /\ pc = "sleep"
    /\ clock + interval * TicksPerSec <= MaxClock
    /\ clock' = clock + interval * TicksPerSec
    /\ slept' = slept + interval * TicksPerSec
    /\ pc' = "collect"
    /\ UNCHANGED <<a_interval, interval, payload, back, sampled,
                   sent, results, waits>>
    /\ UNCHANGED <<serverVars, threadVars, sysVars, call>>

\* line 172: time.sleep(back)
Backoff ==
    /\ pc = "backoff"
    /\ clock + Backoffs[back] * TicksPerSec <= MaxClock
    /\ clock' = clock + Backoffs[back] * TicksPerSec
    /\ slept' = slept + Backoffs[back] * TicksPerSec
    /\ waits' = Append(waits, Backoffs[back])
    /\ pc' = "retry"
    /\ UNCHANGED <<a_interval, interval, payload, back, sampled,
                   sent, results>>
    /\ UNCHANGED <<serverVars, threadVars, sysVars, call>>

\* lines 173-178: one retry. Success breaks out of the for loop; any
\* exception continues it. After the loop the except clause ends and the
\* while loop starts over (there is no sleep on this path).
Retry ==
    /\ pc = "retry"
    /\ \E out \in SendOutcomes :
         /\ results' = Append(results, out)
         /\ IF out # "ok" /\ back < Len(Backoffs)
            THEN pc' = "backoff" /\ back' = back + 1
            ELSE pc' = "collect" /\ back' = 0
    /\ sent' = Append(sent, RetryPayload)
    /\ slept' = 0
    /\ UNCHANGED <<clock, a_interval, interval, payload, sampled, waits>>
    /\ UNCHANGED <<serverVars, threadVars, sysVars, call>>

ErrSleepSkipped ==
    /\ pc = "err_sleep"
    /\ pc' = "collect"
    /\ UNCHANGED <<clock, slept, a_interval, interval, payload, back, sampled,
                   sent, results, waits>>
    /\ UNCHANGED <<serverVars, threadVars, sysVars, call>>

\* line 181: time.sleep(interval) in the catch-all handler
ErrSleep ==
    /\ pc = "err_sleep"
    /\ clock + interval * TicksPerSec <= MaxClock
    /\ clock' = clock + interval * TicksPerSec
    /\ slept' = slept + interval * TicksPerSec
    /\ pc' = "collect"
    /\ UNCHANGED <<a_interval, interval, payload, back, sampled,
                   sent, results, waits>>
    /\ UNCHANGED <<serverVars, threadVars, sysVars, call>>

AgentNext == Collect \/ Send \/ Sleep \/ Backoff \/ Retry \/ ErrSleep

(***************************************************************************)
(* The collector: app.py.                                                  *)
(*                                                                         *)
(* A request body is [kind, mem, obj]: kind is what request.get_json makes *)
(* of it ("unparseable" when it raises, else the JSON type); mem is the    *)
(* set of x for which the Python test `x in payload` is true (the keys of  *)
(* an object, the elements of an array, the substrings of a string); obj   *)
(* is the mapping of an object.                                            *)
(***************************************************************************)
REPORT_INTERVAL_DEFAULT == 10

Required == <<"device_id", "ts", "system", "network">>
RequiredKeys == {Required[i] : i \in 1..Len(Required)}

Body(kind, mem, obj) == [kind |-> kind, mem |-> mem, obj |-> obj]
ObjBody(obj) == Body("object", DOMAIN obj, obj)

\* f without the keys in ks
Without(f, ks) == [x \in DOMAIN f \ ks |-> f[x]]

mark_online_state_Strict(now, last_seen, ivl) ==
    (now - last_seen) < (2 * Max(ivl, REPORT_INTERVAL_DEFAULT))

\* mark_online_state(now, last_seen, interval)
mark_online_state(now, last_seen, ivl) ==
    (now - last_seen) <= (2 * Max(ivl, REPORT_INTERVAL_DEFAULT))

human_ago_MinuteLate(seconds) ==
    IF seconds <= 60 THEN ToString(seconds) \o "s ago"
    ELSE LET mins == seconds \div 60 IN
         IF mins < 60 THEN ToString(mins) \o "m ago"
         ELSE LET hrs == mins \div 60 IN
              IF hrs < 24
              THEN ToString(hrs) \o "h " \o ToString(mins % 60) \o "m ago"
              ELSE ToString(hrs \div 24) \o "d ago"

\* human_ago(seconds)
human_ago(seconds) ==
    IF seconds < 60 THEN ToString(seconds) \o "s ago"
    ELSE LET mins == seconds \div 60 IN
         IF mins < 60 THEN ToString(mins) \o "m ago"
         ELSE LET hrs == mins \div 60 IN
              IF hrs < 24
              THEN ToString(hrs) \o "h " \o ToString(mins % 60) \o "m ago"
              ELSE ToString(hrs \div 24) \o "d ago"

\* The for loop of lines 36-38: the first required key that is not in the
\* payload, "" when all four are
FirstMissingOfThree(body) ==
    IF \A i \in 1..3 : Required[i] \in body.mem THEN ""
    ELSE Required[CHOOSE i \in 1..3 :
                    /\ Required[i] \notin body.mem
                    /\ \A j \in 1..(i - 1) : Required[j] \in body.mem]
FirstMissing(body) ==
    IF \A i \in 1..Len(Required) : Required[i] \in body.mem THEN ""
    ELSE Required[CHOOSE i \in 1..Len(Required) :
                    /\ Required[i] \notin body.mem
                    /\ \A j \in 1..(i - 1) : Required[j] \in body.mem]

\* The record line 44 stores for a payload that passed lines 30-42
NewRecord(p) ==
    [metrics |-> p,
     last_seen |-> PyInt(p.ts),
     interval |-> IF "interval" \in DOMAIN p THEN PyInt(p.interval)
                  ELSE REPORT_INTERVAL_DEFAULT]

StoreAlone(devs, key, rec) == [k \in {key} |-> rec]

\* DEVICES[device_id] = rec
StoreMerged(devs, key, rec) ==
    [k \in DOMAIN devs \cup {key} |->
        IF k # key THEN devs[k]
        ELSE IF key \in DOMAIN devs
             THEN [rec EXCEPT !.metrics = devs[key].metrics]
             ELSE rec]
Store(devs, key, rec) ==
    [k \in DOMAIN devs \cup {key} |-> IF k = key THEN rec ELSE devs[k]]

\* metrics(), up to line 42: how the request ends when it does not reach
\* line 44, or "store" with the locals device_id and the record to store.
\* status 500 stands for an exception that leaves the view function.
Handle(body) ==
    IF body.kind = "unparseable"
    THEN [status |-> 400, error |-> "invalid JSON", key |-> ""]
    ELSE IF body.kind \in {"null", "number"}
    THEN [status |-> 500, error |-> "TypeError", key |-> ""]
    ELSE IF FirstMissing(body) # ""
    THEN [status |-> 400, error |-> "missing field: " \o FirstMissing(body),
          key |-> ""]
    ELSE IF body.kind # "object"
    THEN [status |-> 500, error |-> "TypeError", key |-> ""]
    ELSE IF ~CanInt(body.obj.ts)
    THEN [status |-> 500, error |-> "int(ts)", key |-> ""]
    ELSE IF "interval" \in DOMAIN body.obj /\ ~CanInt(body.obj.interval)
    THEN [status |-> 500, error |-> "int(interval)", key |-> ""]
    ELSE [status |-> 200, error |-> "", key |-> PyStr(body.obj.device_id)]

\* sorted(DEVICES.items()): the keys in ascending order
KeyOrder == <<"1", "a">>
SortedKeys(devs) == SelectSeq(KeyOrder, LAMBDA k : k \in DOMAIN devs)

\* x.get(...) works: x is a dict
IsDict(v) == v.k = "obj"

\* build_rows raises AttributeError on rec: system or network is no dict
RowRaises(rec) ==
    \/ ~IsDict(Get(rec.metrics, "system", Obj(Empty)))
    \/ ~IsDict(Get(rec.metrics, "network", Obj(Empty)))

\* The row of lines 52-75
Row(device_id, rec, now) ==
    LET last_seen == rec.last_seen
        ivl == rec.interval
        m == rec.metrics
        sysm == Get(m, "system", Obj(Empty)).o
        netm == Get(m, "network", Obj(Empty)).o
    IN [device_id |-> device_id,
        online |-> mark_online_state(now, last_seen, ivl),
        last_seen |-> last_seen,
        last_seen_ago |-> human_ago(Max(0, now - last_seen)),
        uptime_s |-> Get(sysm, "uptime_s", None),
        cpu_pct |-> Get(sysm, "cpu_pct", None),
        mem_pct |-> Get(sysm, "mem_pct", None),
        disk_pct |-> Get(sysm, "disk_pct", None),
        loadavg |-> Get(sysm, "loadavg", None),
        iface |-> Get(netm, "iface", None),
        ip |-> Get(netm, "ip", None),
        mac |-> Get(netm, "mac", None),
        rx_bytes |-> Get(netm, "rx_bytes", None),
        tx_bytes |-> Get(netm, "tx_bytes", None),
        rx_packets |-> Get(netm, "rx_packets", None),
        tx_packets |-> Get(netm, "tx_packets", None)]

\* build_rows() over the items it iterates, where it returns
build_rows(items, now) ==
    [i \in 1..Len(SortedKeys(items)) |->
        Row(SortedKeys(items)[i], items[SortedKeys(items)[i]], now)]

\* devices(): the response to GET /devices
ReadResponse(items, now) ==
    IF \E k \in DOMAIN items : RowRaises(items[k])
    THEN [status |-> 500, error |-> "AttributeError"]
    ELSE [status |-> 200, rows |-> build_rows(items, now), now |-> now]

(***************************************************************************)
(* The requests the model submits.                                         *)
(***************************************************************************)
S1 == Obj([uptime_s |-> FloatV(1250), cpu_pct |-> FloatV(8000),
           mem_pct |-> FloatV(4200), disk_pct |-> IntV(37),
           loadavg |-> Leaf("list", 0, "0.1,0.2,0.3")])
N1 == Obj([iface |-> StrV("eth0"), ip |-> StrV("10.0.0.2"),
           mac |-> StrV("aa:bb"), rx_bytes |-> IntV(7), tx_bytes |-> IntV(7),
           rx_packets |-> IntV(0), tx_packets |-> IntV(0)])

DeviceIdVals == {StrV("a"), IntV(1)}
TsVals == {IntV(5), StrV("9"), StrV("x")}
IntervalVals == {IntV(30), StrV("x")}
SystemVals == {S1}
NetworkVals == {N1, Obj(Empty), None}

\* A well-formed report of device d, and the same with one field changed
Base(d) ==
    [device_id |-> d, ts |-> IntV(5), interval |-> IntV(30),
     system |-> S1, network |-> N1]

\* Objects with the four required keys, with or without interval
FourKeyPayloads ==
    UNION {{Base(d)}
           \cup {[Base(d) EXCEPT !.ts = t] : t \in TsVals}
           \cup {[Base(d) EXCEPT !.interval = i] : i \in IntervalVals}
           \cup {[Base(d) EXCEPT !.system = sy] : sy \in SystemVals}
           \cup {[Base(d) EXCEPT !.network = n] : n \in NetworkVals}
           \cup {Without(Base(d), {"interval"}),
                 [Without(Base(d), {"interval"})
                    EXCEPT !.ts = StrV("9"), !.network = Obj(Empty)]}
           : d \in DeviceIdVals}

\* Objects that lack one or more of the required keys
LackingPayloads ==
    {Without(Base(StrV("a")), ks) : ks \in SUBSET RequiredKeys \ {{}}}

\* Bodies that are no JSON object
OtherBodies ==
    {Body("unparseable", {}, Empty), Body("null", {}, Empty),
     Body("number", {}, Empty),
     Body("string", {}, Empty), Body("string", RequiredKeys, Empty),
     Body("array", {"device_id"}, Empty), Body("array", RequiredKeys, Empty)}

Bodies == {ObjBody(p) : p \in FourKeyPayloads \cup LackingPayloads} \cup OtherBodies

Nows == 0..MaxNow

(***************************************************************************)
(* The collector, one request at a time.                                   *)
(***************************************************************************)
NoBody == Body("none", {}, Empty)

ServerInit ==
    /\ DEVICES = Empty
    /\ response = [status |-> 0, error |-> ""]
    /\ lastSubmit = [body |-> NoBody, status |-> 0, key |-> "", prior |-> {}]
    /\ lastOp = "none"
    /\ latest = Empty

\* metrics(): what handling POST /metrics with this body does to the collector
Metrics(body) ==
    LET h == Handle(body) IN
    /\ DEVICES' = IF h.status = 200
                  THEN Store(DEVICES, h.key, NewRecord(body.obj))
                  ELSE DEVICES
    /\ response' = [status |-> h.status, error |-> h.error]
    /\ lastSubmit' = [body |-> body, status |-> h.status, key |-> h.key,
                      prior |-> IF h.key \in DOMAIN DEVICES
                                THEN {DEVICES[h.key]} ELSE {}]
    /\ lastOp' = "submit"
    /\ latest' = IF h.status = 200
                 THEN [k \in DOMAIN latest \cup {h.key} |->
                         IF k = h.key THEN body.obj ELSE latest[k]]
                 ELSE latest

\* POST /metrics from any client
Submit(body) ==
    /\ Metrics(body)
    /\ UNCHANGED <<agentVars, threadVars, sysVars, call>>

\* devices() and index(): both answer with build_rows()
Read(now) ==
    /\ response' = ReadResponse(DEVICES, now)
    /\ lastOp' = "read"
    /\ UNCHANGED <<DEVICES, lastSubmit, latest, agentVars, threadVars, sysVars, call>>

\* health()
Health ==
    /\ response' = [status |-> 200, error |-> ""]
    /\ lastOp' = "health"
    /\ UNCHANGED <<DEVICES, lastSubmit, latest, agentVars, threadVars, sysVars, call>>

(***************************************************************************)
(* The collector, requests handled on concurrent threads. Only line 44     *)
(* (one dict store) and line 51 (sorted(DEVICES.items()), one pass over    *)
(* the dict with no Python code run in between) touch DEVICES; everything  *)
(* else works on the locals of the handler. A record is a dict that is     *)
(* built before it is stored and never written to afterwards, so holding   *)
(* its value stands for holding a reference to it.                         *)
(***************************************************************************)
Writers == {"w1", "w2"}
Readers == {"r1"}
Threads == Writers \cup Readers

ConcBodies ==
    {ObjBody([device_id |-> StrV("a"), ts |-> IntV(5), interval |-> IntV(30),
              system |-> S1, network |-> N1]),
     ObjBody([device_id |-> StrV("a"), ts |-> StrV("9"),
              system |-> S1, network |-> Obj(Empty)]),
     ObjBody([device_id |-> IntV(1), ts |-> IntV(5), interval |-> IntV(30),
              system |-> S1, network |-> N1]),
     ObjBody([device_id |-> StrV("a"), ts |-> IntV(5), system |-> S1]),
     Body("null", {}, Empty)}

NoRecord == [metrics |-> Empty, last_seen |-> 0, interval |-> 0]
Idle == [pc |-> "idle", key |-> "", rec |-> NoRecord, now |-> 0,
         items |-> Empty, out |-> [status |-> 0, error |-> ""]]

ThreadInit ==
    /\ th = [t \in Threads |-> Idle]
    /\ accepted = {}

\* metrics() lines 30-42 and the construction of the record of line 44
BeginMetrics(t, body) ==
    LET h == Handle(body) IN
    /\ th[t].pc = "idle"
    /\ th' = [th EXCEPT ![t] =
                IF h.status = 200
                THEN [Idle EXCEPT !.pc = "store", !.key = h.key,
                                  !.rec = NewRecord(body.obj)]
                ELSE [Idle EXCEPT !.pc = "done",
                                  !.out = [status |-> h.status, error |-> h.error]]]
    /\ UNCHANGED <<DEVICES, accepted, agentVars, response, lastSubmit, lastOp, latest,
                   sysVars, call>>

\* line 44: DEVICES[device_id] = {...}
StoreStep(t) ==
    /\ th[t].pc = "store"
    /\ DEVICES' = Store(DEVICES, th[t].key, th[t].rec)
    /\ accepted' = accepted \cup {<<th[t].key, th[t].rec>>}
    /\ th' = [th EXCEPT ![t].pc = "done",
                        ![t].out = [status |-> 200, error |-> ""]]
    /\ UNCHANGED <<agentVars, response, lastSubmit, lastOp, latest,
                   sysVars, call>>

\* line 49: now = int(time.time())
BeginRead(t, now) ==
    /\ th[t].pc = "idle"
    /\ th' = [th EXCEPT ![t] = [Idle EXCEPT !.pc = "snap", !.now = now]]
    /\ UNCHANGED <<DEVICES, accepted, agentVars, response, lastSubmit, lastOp, latest,
                   sysVars, call>>

\* line 51: sorted(DEVICES.items())
Snapshot(t) ==
    /\ th[t].pc = "snap"
    /\ th' = [th EXCEPT ![t].pc = "rows", ![t].items = DEVICES]
    /\ UNCHANGED <<DEVICES, accepted, agentVars, response, lastSubmit, lastOp, latest,
                   sysVars, call>>

\* lines 51-76, 88: the loop over the items and the response
BuildRows(t) ==
    /\ th[t].pc = "rows"
    /\ th' = [th EXCEPT ![t].pc = "done",
                        ![t].out = ReadResponse(th[t].items, th[t].now)]
    /\ UNCHANGED <<DEVICES, accepted, agentVars, response, lastSubmit, lastOp, latest,
                   sysVars, call>>

\* the handler returns and the thread takes the next request
Return(t) ==
    /\ th[t].pc = "done"
    /\ th' = [th EXCEPT ![t] = Idle]
    /\ UNCHANGED <<DEVICES, accepted, agentVars, response, lastSubmit, lastOp, latest,
                   sysVars, call>>

(***************************************************************************)
(* The agent and the collector on one clock. Time passes in ticks while    *)
(* the agent is blocked in cpu_pct's sleep, in post_json or in the sleep   *)
(* of the loop; the probes themselves take no time. Every post_json        *)
(* returns, within its timeout; the collector handles the request at some  *)
(* instant between the call and its return, and serves reads at any time.  *)
(***************************************************************************)
\* No function is being called
NoCall == [fn |-> "none"]

MaxSysClock == 46
PostTimeout == 5
SysConfIntervals == {0, 9, 10, 11}
\* How long a post_json takes, in ticks: at once, or the whole timeout
Latencies == {0, PostTimeout * TicksPerSec}
Starts == 0..(TicksPerSec - 1)

SysInit ==
    /\ pc = "collect"
    /\ clock \in Starts
    /\ a_interval \in SysConfIntervals
    /\ interval = Max(MinInterval, a_interval)
    /\ payload = Empty /\ sampled = Empty
    /\ back = 0 /\ slept = 0
    /\ sent = <<>> /\ results = <<>> /\ waits = <<>>
    /\ ServerInit /\ ThreadInit
    /\ timer = 0 /\ delivered = FALSE
    /\ call = NoCall

\* line 163 up to the sleep in cpu_pct: ts is taken, then cpu_pct blocks
SysSample ==
    /\ pc = "collect"
    /\ payload' = collect(dev, interval, "eth0", <<7, 7, 0, 0>>, 8000)
    /\ sampled' = payload'
    /\ sent' = <<>> /\ results' = <<>>
    /\ pc' = "sampling"
    /\ timer' = CpuDelayTicks
    /\ UNCHANGED <<clock, a_interval, interval, back, waits, slept, delivered>>
    /\ UNCHANGED <<serverVars, threadVars, call>>

\* One tick passes while the agent is blocked
Tick ==
    /\ timer > 0
    /\ clock < MaxSysClock
    /\ clock' = clock + 1
    /\ timer' = timer - 1
    /\ UNCHANGED <<pc, a_interval, interval, payload, back, sampled, sent,
                   results, waits, slept, delivered>>
    /\ UNCHANGED <<serverVars, threadVars, call>>

\* line 165: post_json is called; it will return lat ticks from now
SysPost ==
    /\ pc = "sampling" /\ timer = 0
    /\ \E lat \in Latencies : timer' = lat
    /\ sent' = Append(sent, payload)
    /\ delivered' = FALSE
    /\ pc' = "posting"
    /\ UNCHANGED <<clock, a_interval, interval, payload, back, sampled,
                   results, waits, slept>>
    /\ UNCHANGED <<serverVars, threadVars, call>>

\* The collector handles the request in flight
SysDeliver ==
    /\ pc = "posting" /\ ~delivered
    /\ Metrics(ObjBody(payload))
    /\ delivered' = TRUE
    /\ UNCHANGED <<agentVars, threadVars, timer, call>>

\* lines 165-167: post_json returns and the agent starts its sleep
SysPostDone ==
    /\ pc = "posting" /\ delivered /\ timer = 0
    /\ results' = Append(results, "ok")
    /\ pc' = "sleeping"
    /\ timer' = interval * TicksPerSec
    /\ UNCHANGED <<clock, a_interval, interval, payload, back, sampled,
                   sent, waits, slept, delivered>>
    /\ UNCHANGED <<serverVars, threadVars, call>>

\* line 167 returns: the loop starts over
SysWake ==
    /\ pc = "sleeping" /\ timer = 0
    /\ pc' = "collect"
    /\ UNCHANGED <<clock, a_interval, interval, payload, back, sampled,
                   sent, results, waits, slept>>
    /\ UNCHANGED <<serverVars, threadVars, sysVars, call>>

\* GET /devices, answered with the collector's int(time.time())
SysRead == Read(epoch)

(***************************************************************************)
(* One call of a function: the arguments are drawn when the run starts,   *)
(* the action of the function applies it and records what it gave back.   *)
(***************************************************************************)
MaxAge == 62
OnlineIntervals == {-1, 0, 9, 10, 11, 30}
OnlineLastSeens == {0, 5}
OnlineCalls ==
    {[fn |-> "mark_online_state", done |-> FALSE,
      arg |-> [now |-> n, last_seen |-> l, interval |-> i]] :
        n \in 0..(MaxAge + 5), l \in OnlineLastSeens, i \in OnlineIntervals}

AgoSeconds ==
    {0, 1, 59, 60, 61, 119, 120, 3599, 3600, 3601, 3661, 7199, 7200,
     86399, 86400, 86401, 90061, 172799, 172800, 864000}
AgoCalls ==
    {[fn |-> "human_ago", done |-> FALSE, arg |-> [seconds |-> x]] :
        x \in AgoSeconds}

\* The records a row is built from, and the instants it is built at
RowRecords ==
    {[metrics |-> [device_id |-> StrV("a"), ts |-> IntV(l),
                   interval |-> IntV(i), system |-> S1, network |-> N1],
      last_seen |-> l, interval |-> i] :
        l \in {5, 100}, i \in {3, 30}}
RowNows == {0, 5, 25, 26, 65, 66, 100, 120, 121, 160, 161, 3766}
RowCalls ==
    {[fn |-> "Row", done |-> FALSE, arg |-> [rec |-> r, now |-> n]] :
        r \in RowRecords, n \in RowNows}

\* The outcomes of `ip route show default`
RouteShows ==
    {Failed, Text(<<>>),
     Text(<< <<"default">>, <<"via">>, <<"10.0.0.1">>, <<"dev">>, <<"eth0">> >>),
     Text(<< <<"default">>, <<"via">>, <<"10.0.0.1">> >>),
     Text(<< <<"default">>, <<"dev">> >>)}
\* The outcomes of `ip -o -4 addr show dev iface`
AddrShows ==
    {Failed, Text(<<>>), AddrShow, Text(<< <<"2:">>, <<"eth0">>, <<"inet">> >>)}
\* The outcomes of reading /sys/class/net/iface/address
AddressFiles == {Failed, Text(""), AddressFile}

ProbeCalls ==
    {[fn |-> "default_iface", done |-> FALSE, arg |-> [res |-> r]] :
        r \in RouteShows}
    \cup {[fn |-> "ip_of", done |-> FALSE, arg |-> [iface |-> i, res |-> r]] :
        i \in Ifaces, r \in AddrShows}
    \cup {[fn |-> "mac_of", done |-> FALSE, arg |-> [iface |-> i, res |-> r]] :
        i \in Ifaces, r \in AddressFiles}
    \cup {[fn |-> "nic_stats", done |-> FALSE,
           arg |-> [iface |-> i, reads |-> <<rb, tb, rp, tp>>]] :
        i \in Ifaces, rb \in CounterReads, tb \in CounterReads,
        rp \in PacketReads, tp \in PacketReads}

Returned(v) == [raised |-> FALSE, value |-> v]
Raised == [raised |-> TRUE, value |-> <<>>]

CallDefaultIface ==
    /\ call.fn = "default_iface" /\ ~call.done
    /\ call' = [call EXCEPT !.done = TRUE] @@
               [out |-> Returned(default_iface(call.arg.res))]
    /\ UNCHANGED <<agentVars, serverVars, threadVars, sysVars>>

CallIpOf ==
    /\ call.fn = "ip_of" /\ ~call.done
    /\ call' = [call EXCEPT !.done = TRUE] @@
               [out |-> Returned(ip_of(call.arg.iface, call.arg.res))]
    /\ UNCHANGED <<agentVars, serverVars, threadVars, sysVars>>

CallMacOf ==
    /\ call.fn = "mac_of" /\ ~call.done
    /\ call' = [call EXCEPT !.done = TRUE] @@
               [out |-> Returned(mac_of(call.arg.iface, call.arg.res))]
    /\ UNCHANGED <<agentVars, serverVars, threadVars, sysVars>>

CallNicStats ==
    /\ call.fn = "nic_stats" /\ ~call.done
    /\ LET i == call.arg.iface
           r == call.arg.reads
       IN call' = [call EXCEPT !.done = TRUE] @@
              [out |-> IF nic_stats_raises(i, r[1], r[2], r[3], r[4])
                       THEN Raised
                       ELSE Returned(nic_stats(i, r[1], r[2], r[3], r[4]))]
    /\ UNCHANGED <<agentVars, serverVars, threadVars, sysVars>>

\* The reads of /proc/stat
Words(ns) == Text([i \in 1..Len(ns) |-> IntV(ns[i])])
StatReads ==
    {Failed,
     Text(<<IntV(20), StrV("x"), IntV(0), IntV(80)>>),
     Words(<<>>),
     Words(<<20, 0, 0, 80>>),
     Words(<<21, 0, 0, 81, 1>>),
     Words(<<22, 0, 0, 80>>),
     Words(<<40, 0, 0, 70>>),
     Words(<<60, 10, 10, 90, 10, 10, 5, 5>>),
     Words(<<60, 10, 10, 90, 10, 10, 5, 5, 9, 9>>)}
CpuCalls ==
    {[fn |-> "cpu_pct", done |-> FALSE, arg |-> [res1 |-> a, res2 |-> b]] :
        a \in StatReads, b \in StatReads}

CallCpuPct ==
    /\ call.fn = "cpu_pct" /\ ~call.done
    /\ call' = [call EXCEPT !.done = TRUE] @@
               [out |-> cpu_pct(call.arg.res1, call.arg.res2)]
    /\ UNCHANGED <<agentVars, serverVars, threadVars, sysVars>>

CallMarkOnlineState ==
    /\ call.fn = "mark_online_state" /\ ~call.done
    /\ call' = [call EXCEPT !.done = TRUE] @@
               [out |-> mark_online_state(call.arg.now, call.arg.last_seen,
                                          call.arg.interval)]
    /\ UNCHANGED <<agentVars, serverVars, threadVars, sysVars>>

CallHumanAgo ==
    /\ call.fn = "human_ago" /\ ~call.done
    /\ call' = [call EXCEPT !.done = TRUE] @@
               [out |-> human_ago(call.arg.seconds)]
    /\ UNCHANGED <<agentVars, serverVars, threadVars, sysVars>>

CallRow ==
    /\ call.fn = "Row" /\ ~call.done
    /\ call' = [call EXCEPT !.done = TRUE] @@
               [out |-> Row("a", call.arg.rec, call.arg.now)]
    /\ UNCHANGED <<agentVars, serverVars, threadVars, sysVars>>

(***************************************************************************)
(* Specifications.                                                         *)
(***************************************************************************)
Init ==
    /\ AgentInit /\ ServerInit /\ ThreadInit
    /\ timer = 0 /\ delivered = FALSE
    /\ call = NoCall

SpecAgent == Init /\ [][AgentNext]_vars

ServerNext ==
    \/ \E body \in Bodies : Submit(body)
    \/ \E now \in Nows : Read(now)
    \/ Health

SpecServer == Init /\ [][ServerNext]_vars

ConcNext ==
    \/ \E t \in Writers, body \in ConcBodies : BeginMetrics(t, body)
    \/ \E t \in Writers : StoreStep(t)
    \/ \E t \in Readers, now \in Nows : BeginRead(t, now)
    \/ \E t \in Readers : Snapshot(t)
    \/ \E t \in Readers : BuildRows(t)
    \/ \E t \in Threads : Return(t)

SpecConc == Init /\ [][ConcNext]_vars

SysNext ==
    \/ SysSample
    \/ Tick
    \/ SysPost
    \/ SysDeliver
    \/ SysPostDone
    \/ SysWake
    \/ SysRead

SpecSystem == SysInit /\ [][SysNext]_vars

Calls == OnlineCalls \cup AgoCalls \cup RowCalls \cup ProbeCalls \cup CpuCalls

CallInit ==
    /\ AgentInit /\ ServerInit /\ ThreadInit
    /\ timer = 0 /\ delivered = FALSE
    /\ call \in Calls

CallNext ==
    \/ CallMarkOnlineState
    \/ CallHumanAgo
    \/ CallRow
    \/ CallDefaultIface
    \/ CallIpOf
    \/ CallMacOf
    \/ CallNicStats
    \/ CallCpuPct

SpecCall == CallInit /\ [][CallNext]_vars

(***************************************************************************)
(* The agent's report cycle.                                               *)
(***************************************************************************)

\* C1: after a cycle whose first send failed with a transport failure, the
\* agent has slept the full interval when it starts the next SAMPLE, whether
\* a retry succeeded or all three failed.
C1_SleepsIntervalAfterRetries ==
    (pc = "collect" /\ results # <<>> /\ results[1] = "transport")
        => slept >= interval * TicksPerSec

\* C2: after a first send that failed with a transport failure there are at
\* most 3 further sends, each preceded by its wait, the waits being 2, 4, 8
\* seconds in that order; no send follows a successful one; and the cycle
\* ends either on a successful retry or after exactly 3 failed retries.
C2_BoundedRetry ==
    (results # <<>> /\ results[1] = "transport") =>
        /\ pc \in {"backoff", "retry", "collect"}
        /\ Len(results) <= 4
        /\ waits = SubSeq(<<2, 4, 8>>, 1, Len(waits))
        /\ Len(waits) = Len(results) - (IF pc = "retry" THEN 0 ELSE 1)
        /\ \A i \in 1..(Len(results) - 1) : results[i] # "ok"
        /\ pc = "backoff" => results[Len(results)] # "ok"
        /\ pc = "collect" =>
             \/ results[Len(results)] = "ok"
             \/ Len(results) = 4 /\ waits = <<2, 4, 8>>

\* a cycle in which the first send and all three retries failed
C2_Witness ==
    /\ pc = "collect"
    /\ Len(results) = 4
    /\ \A i \in 1..4 : results[i] # "ok"
    /\ results[1] = "transport"
    /\ waits = <<2, 4, 8>>

\* C3: every send of a cycle, the first and each retry, carries the payload
\* the cycle's collect() returned, unchanged (ts included), and the loop's
\* payload is not rebuilt while the cycle sends.
C3_SamePayload ==
    sent # <<>> =>
        /\ payload = sampled
        /\ \A i \in 1..Len(sent) : sent[i] = sampled

\* the third retry is sent seconds after the sample was taken
C3_Witness ==
    /\ Len(sent) = 4
    /\ sent[4] = sampled
    /\ epoch >= sampled.ts.n + 14

\* C4: no failure in a report cycle ends the loop: main is never left.
C4_LoopNeverLeft == pc # "dead"

(***************************************************************************)
(* The collector's store.                                                  *)
(***************************************************************************)

\* the last POST carried a JSON object
SubmittedObject == lastSubmit.body.kind = "object"

\* the network columns of a row are all None
NetAbsent(row) ==
    /\ row.iface = None /\ row.ip = None /\ row.mac = None
    /\ row.rx_bytes = None /\ row.tx_bytes = None
    /\ row.rx_packets = None /\ row.tx_packets = None

\* the rows of the last response that are about device key
RowsOf(key) ==
    {response.rows[i] : i \in {j \in 1..Len(response.rows) :
                                 response.rows[j].device_id = key}}

\* C5: the store holds one record for each key that ever had an accepted
\* submission, and that record is the last accepted submission for the key
\* in full: its payload, its ts as last_seen, its interval (10 by default).
C5_LatestWins ==
    /\ DOMAIN DEVICES = DOMAIN latest
    /\ \A k \in DOMAIN DEVICES :
         /\ k = PyStr(latest[k].device_id)
         /\ DEVICES[k].metrics = latest[k]
         /\ DEVICES[k].last_seen = PyInt(latest[k].ts)
         /\ DEVICES[k].interval =
              IF "interval" \in DOMAIN latest[k] THEN PyInt(latest[k].interval)
              ELSE 10

\* a record was just replaced by a submission with a smaller ts and other
\* network data, while another device has a record too
C5_Witness ==
    /\ lastOp = "submit"
    /\ lastSubmit.status = 200
    /\ Cardinality(DOMAIN DEVICES) = 2
    /\ \E r \in lastSubmit.prior :
         /\ r.last_seen > DEVICES[lastSubmit.key].last_seen
         /\ r.metrics.network # DEVICES[lastSubmit.key].metrics.network
         /\ r.interval # DEVICES[lastSubmit.key].interval

\* C6: a POST of a JSON object that lacks one or more of the four required
\* keys is answered 400 "missing field: ..." and leaves the store as it was.
C6_MissingKeyRejected ==
    [][(lastOp' = "submit" /\ lastSubmit'.body.kind = "object"
          /\ ~(RequiredKeys \subseteq DOMAIN lastSubmit'.body.obj))
       => /\ response'.status = 400
          /\ \E k \in RequiredKeys \ DOMAIN lastSubmit'.body.obj :
                response'.error = "missing field: " \o k
          /\ DEVICES' = DEVICES]_vars

\* a report without network was just posted for a device that has a record
C6_Witness ==
    /\ lastOp = "submit"
    /\ SubmittedObject
    /\ DOMAIN lastSubmit.body.obj = {"device_id", "ts", "interval", "system"}
    /\ PyStr(lastSubmit.body.obj.device_id) \in DOMAIN DEVICES
    /\ response.status = 400

\* the last POST was a report without the network key (the other three
\* required keys present) for a device that has a record
ResubmittedWithoutNetwork ==
    /\ SubmittedObject
    /\ RequiredKeys \ DOMAIN lastSubmit.body.obj = {"network"}
    /\ PyStr(lastSubmit.body.obj.device_id) \in DOMAIN DEVICES

C8_AcceptedOrValidationError ==
    lastOp = "submit" => response.status \in {200, 400}

\* C10: a POST of an object with the four required keys is stored with
\* last_seen = int(ts) and interval = int(interval), 10 without interval,
\* and the read that follows reports that last_seen.
C10_StoredAsSubmitted ==
    (lastOp \in {"submit", "read"} /\ SubmittedObject
       /\ RequiredKeys \subseteq DOMAIN lastSubmit.body.obj) =>
        /\ lastSubmit.status = 200
        /\ DEVICES[lastSubmit.key].last_seen = PyInt(lastSubmit.body.obj.ts)
        /\ DEVICES[lastSubmit.key].interval =
              IF "interval" \in DOMAIN lastSubmit.body.obj
              THEN PyInt(lastSubmit.body.obj.interval) ELSE 10
        /\ lastOp = "read" =>
              /\ response.status = 200
              /\ \E row \in RowsOf(lastSubmit.key) :
                    row.last_seen = PyInt(lastSubmit.body.obj.ts)

(***************************************************************************)
(* The collector under concurrent requests.                                *)
(***************************************************************************)

\* C9: the record under a key is always one stored submission in full; the
\* records a read iterates are each one stored submission in full, and each
\* row it returns is the row of one stored submission.
C9_NoTornRecord ==
    /\ \A k \in DOMAIN DEVICES : <<k, DEVICES[k]>> \in accepted
    /\ \A t \in Readers :
         /\ \A k \in DOMAIN th[t].items : <<k, th[t].items[k]>> \in accepted
         /\ (th[t].pc = "done" /\ th[t].out.status = 200) =>
               \A i \in 1..Len(th[t].out.rows) :
                  \E a \in accepted :
                     th[t].out.rows[i] = Row(a[1], a[2], th[t].out.now)

\* two writers have stored different reports of one device while a read,
\* which took its snapshot in between, is still building its rows
C9_Witness ==
    /\ th["w1"].pc = "done" /\ th["w2"].pc = "done"
    /\ th["w1"].key = th["w2"].key
    /\ th["w1"].rec # th["w2"].rec
    /\ th["r1"].pc = "rows"
    /\ th["w1"].key \in DOMAIN th["r1"].items
    /\ th["r1"].items[th["w1"].key] # DEVICES[th["w1"].key]

(***************************************************************************)
(* The online rule and the age text.                                       *)
(***************************************************************************)
\* C11: mark_online_state gives true exactly when now - last_seen is at most
\* twice the larger of the interval and 10, so true at equality and false one
\* second later; the online field of a row is that value for the record's
\* last_seen and interval.
C11_OnlineRule ==
    /\ (call.fn = "mark_online_state" /\ call.done) =>
          LET a == call.arg
              limit == 2 * (IF a.interval >= 10 THEN a.interval ELSE 10)
          IN /\ call.out = (a.now - a.last_seen <= limit)
             /\ (a.now - a.last_seen = limit) => call.out
             /\ (a.now - a.last_seen = limit + 1) => ~call.out
    /\ (call.fn = "Row" /\ call.done) =>
          LET r == call.arg.rec
              limit == 2 * (IF r.interval >= 10 THEN r.interval ELSE 10)
          IN call.out.online = (call.arg.now - r.last_seen <= limit)

\* A row built one second after the limit of its record
C11_Witness ==
    /\ call.fn = "Row" /\ call.done
    /\ call.arg.rec.interval = 30
    /\ call.arg.now - call.arg.rec.last_seen = 61
    /\ ~call.out.online

\* C12: human_ago of s >= 0 is "{s}s ago" under a minute, "{s div 60}m ago"
\* under an hour, "{s div 3600}h {(s div 60) mod 60}m ago" under a day and
\* "{s div 86400}d ago" from a day on; a row built before its record's
\* last_seen formats the age 0.
AgoText(x) ==
    IF x < 60 THEN ToString(x) \o "s ago"
    ELSE IF x < 3600 THEN ToString(x \div 60) \o "m ago"
    ELSE IF x < 86400
         THEN ToString(x \div 3600) \o "h " \o ToString((x \div 60) % 60)
                  \o "m ago"
    ELSE ToString(x \div 86400) \o "d ago"

C12_AgoText ==
    /\ (call.fn = "human_ago" /\ call.done) =>
          LET x == call.arg.seconds IN
          /\ call.out = AgoText(x)
          /\ (x = 0) => call.out = "0s ago"
          /\ (x = 59) => call.out = "59s ago"
          /\ (x = 60) => call.out = "1m ago"
          /\ (x = 3600) => call.out = "1h 0m ago"
          /\ (x = 3661) => call.out = "1h 1m ago"
          /\ (x = 86400) => call.out = "1d ago"
    /\ (call.fn = "Row" /\ call.done) =>
          LET age == call.arg.now - call.arg.rec.last_seen IN
          call.out.last_seen_ago = AgoText(IF age < 0 THEN 0 ELSE age)

\* A row built before the last_seen of its record
C12_Witness ==
    /\ call.fn = "Row" /\ call.done
    /\ call.arg.now < call.arg.rec.last_seen
    /\ call.out.last_seen_ago = "0s ago"

(***************************************************************************)
(* The catch-all handler of the report cycle.                              *)
(***************************************************************************)
\* C13: when the first send of a cycle fails with a failure that is not a
\* transport failure, the cycle sends nothing more and waits no backoff: it
\* sleeps the interval once and the next cycle samples.
C13_NoRetryAfterOtherFailure ==
    (results # <<>> /\ results[1] = "other") =>
        /\ Len(sent) = 1 /\ Len(results) = 1
        /\ waits = <<>>
        /\ pc \in {"err_sleep", "collect"}
        /\ (pc = "err_sleep") => slept = 0
        /\ (pc = "collect") => slept = interval * TicksPerSec

\* The cycle is over: one send, failed, and the interval slept
C13_Witness ==
    /\ pc = "collect"
    /\ results = <<"other">>
    /\ Len(sent) = 1
    /\ slept = interval * TicksPerSec

(***************************************************************************)
(* The network probes.                                                     *)
(***************************************************************************)
\* C14: default_iface, ip_of, mac_of and nic_stats never raise into their
\* caller: on a failing command, a missing file or a counter file that holds
\* no integer they return their empty or zero value, and nic_stats returns
\* (0, 0, 0, 0) when no interface is resolved.
C14_ProbesFailSoft ==
    (call.done /\ call.fn \in {"default_iface", "ip_of", "mac_of", "nic_stats"})
    => /\ ~call.out.raised
       /\ (call.fn # "nic_stats" /\ ~call.arg.res.ok) => call.out.value = ""
       /\ (call.fn = "nic_stats" /\ call.arg.iface = "")
              => call.out.value = <<0, 0, 0, 0>>

(***************************************************************************)
(* The CPU percentage.                                                     *)
(***************************************************************************)
\* The counters of a read that parsed: its words as integers, zero where the
\* line has no word
Counter(res, i) == IF i <= Len(res.out) THEN res.out[i].n ELSE 0
IdleOf(res) == Counter(res, 4) + Counter(res, 5)
TotalOf(res) ==
    IdleOf(res) + Counter(res, 1) + Counter(res, 2) + Counter(res, 3)
    + Counter(res, 6) + Counter(res, 7) + Counter(res, 8)
Parsed(res) == res.ok /\ \A i \in 1..Len(res.out) : res.out[i].k = "int"

\* C15: cpu_pct is (1 - idle_delta / max(total_delta, 1)) * 100 rounded to
\* two places, idle being idle + iowait and total adding user, nice, system,
\* irq, softirq and steal to it; samples (100, 80) then (200, 100) give
\* 80.00; a sample that cannot be read or parsed gives 0.0.
C15_CpuPct ==
    (call.fn = "cpu_pct" /\ call.done) =>
        LET a == call.arg.res1
            b == call.arg.res2
        IN IF ~Parsed(a) \/ ~Parsed(b) THEN call.out = 0
           ELSE LET td == TotalOf(b) - TotalOf(a)
                    idl == IdleOf(b) - IdleOf(a)
                    m == IF td >= 1 THEN td ELSE 1
                    twice == 2 * (call.out * m - 10000 * (m - idl))
                IN /\ twice <= m /\ -twice <= m
                   /\ (TotalOf(a) = 100 /\ IdleOf(a) = 80 /\ TotalOf(b) = 200
                       /\ IdleOf(b) = 100) => call.out = 8000

\* The samples (100, 80) then (200, 100)
C15_Witness ==
    /\ call.fn = "cpu_pct" /\ call.done
    /\ Parsed(call.arg.res1) /\ Parsed(call.arg.res2)
    /\ TotalOf(call.arg.res1) = 100 /\ IdleOf(call.arg.res1) = 80
    /\ TotalOf(call.arg.res2) = 200 /\ IdleOf(call.arg.res2) = 100
    /\ call.out = 8000

\* C18: for every pair of samples that were read and parsed, cpu_pct is a
\* percentage between 0 and 100, also when the two samples are equal and
\* when idle + iowait or the total moved backwards.
C18_CpuPctInRange ==
    (call.fn = "cpu_pct" /\ call.done
     /\ Parsed(call.arg.res1) /\ Parsed(call.arg.res2))
    => (0 <= call.out /\ call.out <= 10000)

(***************************************************************************)
(* What a read returns.                                                    *)
(***************************************************************************)
\* C16: a read returns one row for each device_id in the store, in ascending
\* order of device_id, with one now; the online flag and the last_seen_ago
\* text of every row are computed from that now and the device's record.
C16_OneRowPerDevice ==
    (lastOp = "read") =>
        /\ response.status = 200
        /\ Len(response.rows) = Cardinality(DOMAIN DEVICES)
        /\ [i \in 1..Len(response.rows) |-> response.rows[i].device_id]
              = SortedKeys(DEVICES)
        /\ \A i \in 1..Len(response.rows) :
              LET row == response.rows[i]
                  rec == DEVICES[row.device_id]
                  age == response.now - rec.last_seen
              IN /\ row.last_seen = rec.last_seen
                 /\ row.online = (age <= 2 * (IF rec.interval >= 10
                                              THEN rec.interval ELSE 10))
                 /\ row.last_seen_ago = AgoText(IF age < 0 THEN 0 ELSE age)

C19_OnlyOwnRecord ==
    [][/\ (lastOp' = "submit" /\ response'.status = 200) =>
             LET d == PyStr(lastSubmit'.body.obj.device_id) IN
             /\ DOMAIN DEVICES' = DOMAIN DEVICES \cup {d}
             /\ \A k \in DOMAIN DEVICES \ {d} : DEVICES'[k] = DEVICES[k]
       /\ (lastOp' = "submit" /\ response'.status # 200) => DEVICES' = DEVICES
       /\ (lastOp' \in {"read", "health"}) => DEVICES' = DEVICES]_vars

\* An accepted submission has replaced the record of its device with a
\* different one while the other device has a record
C19_Witness ==
    /\ lastOp = "submit"
    /\ response.status = 200
    /\ lastSubmit.prior # {}
    /\ DEVICES[lastSubmit.key] \notin lastSubmit.prior
    /\ \E k \in DOMAIN DEVICES : k # lastSubmit.key

(***************************************************************************)
(* A device that reports without a failure.                                *)
(***************************************************************************)
\* C20: when every send of the agent succeeds at the first attempt within
\* the 5 s timeout, every read served after the first accepted report shows
\* the device online: the age now - last_seen the read sees is at most twice
\* the larger of the interval and 10.
C20_HealthyShownOnline ==
    (lastOp = "read" /\ response.status = 200) =>
        \A i \in 1..Len(response.rows) :
            /\ response.rows[i].online
            /\ response.now - response.rows[i].last_seen
                  <= 2 * (IF interval >= 10 THEN interval ELSE 10)

====
